---- MODULE Spec2Model ----
(***************************************************************************)
(* Model of homework.py: a bot that polls the Practicum homework-status    *)
(* endpoint, compares the first homework's status with the last one seen   *)
(* and sends a Telegram message on a change or on a failure.               *)
(*                                                                         *)
(* Python values are modelled as follows.                                  *)
(*  - a str is a TLA+ string; None is the string "None" (its str());       *)
(*  - a homework dict is a function whose DOMAIN is its set of keys;       *)
(*  - a deserialized JSON value is [type, keys, homeworks], type being the *)
(*    Python type name, keys the keys of a dict, homeworks the value       *)
(*    stored under "homeworks": [type, items];                             *)
(*  - an exception class and message is [kind, msg]; a raised exception    *)
(*    object adds id, the identity of the object.                          *)
(* The Russian literals of the source are rendered in English, because     *)
(* module text is ASCII; each literal keeps its own distinct rendering.    *)
(***************************************************************************)
EXTENDS Integers, Sequences, FiniteSets, TLC

VARIABLES
    pc,                 \* position of main(): see PcValues
    PRACTICUM_TOKEN,    \* homework.py:17
    TELEGRAM_TOKEN,     \* homework.py:18
    TELEGRAM_CHAT_ID,   \* homework.py:20
    timestamp,          \* main: the from_date cursor
    status,             \* main: last known status
    err_message,        \* main: last reported error ("" or an exception object)
    response,           \* main: what get_api_answer returned
    get_status,         \* main: what check_response returned
    text,               \* main: what parse_status returned
    error,              \* the exception being handled or propagating
    escaping,           \* TRUE when an exception left the except clause
    requests_made,      \* history: HTTP requests since the last sleep
    reply,              \* history: what the request of this iteration met
    sent,               \* history: send attempts of the current iteration
    slept,              \* history: sleeps (seconds each) since the last request
    status0,            \* history: status when the current iteration began
    err0,               \* history: err_message when the current iteration began
    caught,             \* history: [kind, msg] caught by the except clause in this iteration
    prev_caught,        \* history: the same, of the previous iteration
    looped,             \* history: TRUE once an iteration has finished
    started,            \* history: int(time.time()) read at line 143
    last_validated      \* history: status after the last iteration whose response was valid

vars == <<pc, PRACTICUM_TOKEN, TELEGRAM_TOKEN, TELEGRAM_CHAT_ID, timestamp, status,
          err_message, response, get_status, text, error, escaping,
          requests_made, reply, sent, slept, status0, err0, caught, prev_caught, looped, started, last_validated>>

-----------------------------------------------------------------------------
(* Bounds of the model *)

\* longest "homeworks" list a reply carries
MaxLen == 2
\* number of distinct identities an exception object can take
MaxObjects == 2

-----------------------------------------------------------------------------
(* Constants of the program *)

RETRY_PERIOD == 600

TIME_INTERVAL == 30 * 24 * 60 * 60

ENDPOINT == "https://practicum.yandex.ru/api/user_api/homework_statuses/"

HTTP_OK == 200

HOMEWORK_VERDICTS ==
    [approved  |-> "Work reviewed: the reviewer liked everything. Hooray!",
     reviewing |-> "Work has been taken for review by the reviewer.",
     rejected  |-> "Work reviewed: the reviewer has remarks."]

None == "None"

-----------------------------------------------------------------------------
(* Results of a call: a returned value or a raised exception *)

NoExc == [kind |-> "", msg |-> ""]

Return(v) == [raised |-> FALSE, exc |-> NoExc, value |-> v]

Raise(kind, msg) == [raised |-> TRUE, exc |-> [kind |-> kind, msg |-> msg], value |-> None]

\* str(exception): the message, except that KeyError shows the repr of its key
Str(e) == IF e.kind = "KeyError" THEN "'" \o e.msg \o "'" ELSE e.msg

-----------------------------------------------------------------------------
(* The values the environment can supply *)

\* marks a key a dict does not have (not a Python value)
Absent == "<absent>"

TokenValues == {None, "", "token"}

Names == {"hw1"}

StatusValues == {"approved", "reviewing", "rejected", "unknown", "archived"}

\* the dict {"homework_name": n, "status": s}, without the keys that are Absent
Dict(n, s) ==
    [k \in ({"homework_name" : x \in {n} \ {Absent}} \cup {"status" : x \in {s} \ {Absent}})
        |-> IF k = "homework_name" THEN n ELSE s]

Homeworks == {Dict(n, s) : n \in Names \cup {Absent}, s \in StatusValues \cup {Absent}}

\* the older homeworks that follow the first one in a reply
OlderHomeworks == {Dict("hw0", "approved"), Dict("hw0", "archived"), Dict(Absent, Absent)}

SeqsUpTo(S, n) == UNION {[1..k -> S] : k \in 0..n}

\* the "homeworks" lists of the replies: empty, or any first homework
\* followed by older ones
HomeworkLists ==
    {<<>>} \cup {<<h>> \o t : h \in Homeworks, t \in SeqsUpTo(OlderHomeworks, MaxLen - 1)}

\* int(time.time()) at process start
StartTimes == {TIME_INTERVAL, TIME_INTERVAL + 86400}

NoValue == [type |-> "NoneType", items |-> <<>>]

\* deserialized bodies: a list, a dict without "homeworks", a dict whose
\* "homeworks" is a str, and dicts whose "homeworks" is a list of dicts
Bodies ==
    {[type |-> "list", keys |-> {}, homeworks |-> NoValue],
     [type |-> "dict", keys |-> {"code"}, homeworks |-> NoValue],
     [type |-> "dict", keys |-> {"homeworks"}, homeworks |-> [type |-> "str", items |-> <<>>]]}
    \cup {[type |-> "dict", keys |-> {"homeworks", "current_date"},
           homeworks |-> [type |-> "list", items |-> hs]] : hs \in HomeworkLists}

NoBody == [type |-> "NoneType", keys |-> {}, homeworks |-> NoValue]

\* what Response.json() does: "" when it returns value, otherwise the class
\* of the decode error it raises.  The decode error of a body that is not
\* JSON is a requests.RequestException in some releases of requests and only
\* a ValueError in others.
JsonOutcomes ==
    {[raises |-> "", value |-> b] : b \in Bodies}
    \cup {[raises |-> c, value |-> NoBody] : c \in {"RequestException", "ValueError"}}

\* what requests.get() does: raises a RequestException (raises # ""), or
\* returns a Response with a status code and a body
Replies ==
    {[raises |-> "Connection reset", status_code |-> 0, json |-> [raises |-> "", value |-> NoBody]],
     [raises |-> "", status_code |-> 503, json |-> [raises |-> "", value |-> NoBody]]}
    \cup {[raises |-> "", status_code |-> HTTP_OK, json |-> j] : j \in JsonOutcomes}

\* what bot.send_message() does: "" when delivered, otherwise the text of
\* the telegram.error.TelegramError it raises
Deliveries == {"", "Timed out"}

NoReply == [raises |-> "", status_code |-> 0, json |-> [raises |-> "", value |-> NoBody]]

-----------------------------------------------------------------------------
(* The functions of homework.py *)

Truthy(v) == v # None /\ v # ""

\* check_tokens with any() written for all()
check_tokens_Any == Truthy(PRACTICUM_TOKEN) \/ Truthy(TELEGRAM_TOKEN) \/ Truthy(TELEGRAM_CHAT_ID)

check_tokens == Truthy(PRACTICUM_TOKEN) /\ Truthy(TELEGRAM_TOKEN) /\ Truthy(TELEGRAM_CHAT_ID)

send_message(message, delivery) ==
    IF delivery # ""
    THEN Raise("SendMessageError", "Sending error: " \o delivery)
    ELSE Return(None)

Request(ts) == [url |-> ENDPOINT, params |-> [from_date |-> ts]]

get_api_answer(ts, rep) ==
    LET api_dict == Request(ts) IN
    IF rep.raises # ""
    THEN Raise("ApiRequestError", "Request error: " \o rep.raises)
    ELSE IF rep.status_code # HTTP_OK
    THEN Raise("ApiRequestError", "Endpoint unavailable: " \o api_dict.url)
    ELSE IF rep.json.raises = "RequestException"
    THEN Raise("ApiRequestError", "Request error: Expecting value")
    ELSE IF rep.json.raises # ""
    THEN Raise(rep.json.raises, "Expecting value")
    ELSE Return(rep.json.value)

\* dict.get(key): None when the key is absent
Get(d, key) == IF key \in DOMAIN d THEN d[key] ELSE None

\* check_response without the test of the status against HOMEWORK_VERDICTS
check_response_NoStatusTest(resp) ==
    IF resp.type # "dict" \/ "homeworks" \notin resp.keys
    THEN Raise("TypeError", "No dict with homeworks found in the API response")
    ELSE LET homeworks == resp.homeworks IN
         IF homeworks.type # "list"
         THEN Raise("TypeError", "Key 'homeworks' does not return a list")
         ELSE IF Len(homeworks.items) = 0
         THEN Raise("IndexError", "list index out of range")
         ELSE IF "status" \notin DOMAIN homeworks.items[1]
         THEN Raise("KeyError", "status")
         ELSE Return(homeworks.items[1]["status"])

\* check_response that inspects the last homework of the list, not the first
check_response_LastElement(resp) ==
    IF resp.type # "dict" \/ "homeworks" \notin resp.keys
    THEN Raise("TypeError", "No dict with homeworks found in the API response")
    ELSE LET homeworks == resp.homeworks IN
         IF homeworks.type # "list"
         THEN Raise("TypeError", "Key 'homeworks' does not return a list")
         ELSE IF Len(homeworks.items) = 0
         THEN Raise("IndexError", "list index out of range")
         ELSE LET st == Get(homeworks.items[Len(homeworks.items)], "status") IN
              IF st \notin DOMAIN HOMEWORK_VERDICTS
              THEN Raise("TypeError", "Error: undocumented status: " \o st)
              ELSE Return(homeworks.items[Len(homeworks.items)]["status"])

\* check_response without the isinstance(homeworks, list) test
check_response_NoListTest(resp) ==
    IF resp.type # "dict" \/ "homeworks" \notin resp.keys
    THEN Raise("TypeError", "No dict with homeworks found in the API response")
    ELSE LET homeworks == resp.homeworks IN
         IF Len(homeworks.items) = 0
         THEN Raise("IndexError", "list index out of range")
         ELSE LET st == Get(homeworks.items[1], "status") IN
              IF st \notin DOMAIN HOMEWORK_VERDICTS
              THEN Raise("TypeError", "Error: undocumented status: " \o st)
              ELSE Return(homeworks.items[1]["status"])

check_response(resp) ==
    IF resp.type # "dict" \/ "homeworks" \notin resp.keys
    THEN Raise("TypeError", "No dict with homeworks found in the API response")
    ELSE LET homeworks == resp.homeworks IN
         IF homeworks.type # "list"
         THEN Raise("TypeError", "Key 'homeworks' does not return a list")
         ELSE IF Len(homeworks.items) = 0
         THEN Raise("IndexError", "list index out of range")
         ELSE LET st == Get(homeworks.items[1], "status") IN
              IF st \notin DOMAIN HOMEWORK_VERDICTS
              THEN Raise("TypeError", "Error: undocumented status: " \o st)
              ELSE Return(homeworks.items[1]["status"])

\* parse_status that looks the verdict up under a fixed key
parse_status_FixedVerdict(homework) ==
    IF "homework_name" \notin DOMAIN homework
    THEN Raise("KeyError", "API response lacks key 'homework_name'")
    ELSE Return("Review status of work \"" \o homework["homework_name"]
                \o "\" has changed. " \o HOMEWORK_VERDICTS["reviewing"])

parse_status(homework) ==
    IF "homework_name" \notin DOMAIN homework
    THEN Raise("KeyError", "API response lacks key 'homework_name'")
    ELSE IF "status" \notin DOMAIN homework
    THEN Raise("KeyError", "status")
    ELSE LET st == homework["status"] IN
         IF st = "unknown"
         THEN Raise("HomeWorkStatusUnknown", "Homework status is not documented")
         ELSE IF st \notin DOMAIN HOMEWORK_VERDICTS
         THEN Raise("KeyError", st)
         ELSE LET verdict == HOMEWORK_VERDICTS[st]
                  homework_name == homework["homework_name"]
              IN  Return("Review status of work \"" \o homework_name \o "\" has changed. " \o verdict)

-----------------------------------------------------------------------------
(* Exception objects *)

\* the str "" that err_message holds at first: no exception object is it
EmptyStr == [kind |-> "str", msg |-> "", id |-> 0]

NoError == [kind |-> "", msg |-> "", id |-> 0]

Object(exc, id) == [kind |-> exc.kind, msg |-> exc.msg, id |-> id]

\* identities a new exception object can get: any but those of the objects
\* still referenced (err_message keeps the last reported one alive)
FreeIds == (1..MaxObjects) \ {err_message.id}

\* err_message != error comparing what the exceptions say: their class and message
Differs_ByMessage(a, b) == a.kind # b.kind \/ a.msg # b.msg

\* a != b of main(): neither str nor the exception classes define equality
\* between an exception and anything else, so Python compares identities
Differs(a, b) == a.id # b.id

\* classes of the exceptions module, taken to derive from Exception
CustomExceptions == {"ApiRequestError", "SendMessageError", "HomeWorkStatusUnknown"}

\* what `except Exception` catches
IsException(kind) ==
    kind \in CustomExceptions \cup {"TypeError", "KeyError", "IndexError", "ValueError"}

\* f"... {err_message}" of the failure report
FailureMessage(e) == "A failure was detected in the program: " \o Str(e)

-----------------------------------------------------------------------------
(* main() *)

PcValues == {"start", "get_api_answer", "check_response", "compare", "parse_status",
             "send_message", "except", "report", "sleep", "exited", "crashed"}

Init ==
    /\ pc = "start"
    /\ PRACTICUM_TOKEN \in TokenValues
    /\ TELEGRAM_TOKEN \in TokenValues
    /\ TELEGRAM_CHAT_ID \in TokenValues
    /\ timestamp = 0
    /\ status = ""
    /\ err_message = EmptyStr
    /\ response = NoBody
    /\ get_status = ""
    /\ text = ""
    /\ error = NoError
    /\ escaping = FALSE
    /\ requests_made = <<>>
    /\ reply = NoReply
    /\ sent = <<>>
    /\ slept = <<>>
    /\ status0 = ""
    /\ err0 = EmptyStr
    /\ caught = NoExc
    /\ prev_caught = NoExc
    /\ looped = FALSE
    /\ last_validated = ""
    /\ started = 0

env == <<PRACTICUM_TOKEN, TELEGRAM_TOKEN, TELEGRAM_CHAT_ID>>

locals == <<response, get_status, text>>

history == <<requests_made, reply, sent, slept, status0, err0, caught, prev_caught, looped, last_validated>>

\* lines 139-145: the credential check, then the locals of the loop
Startup ==
    /\ pc = "start"
    /\ IF ~check_tokens
       THEN /\ pc' = "exited"
            /\ UNCHANGED <<started, timestamp, status, err_message>>
       ELSE /\ \E now \in StartTimes : started' = now /\ timestamp' = now - TIME_INTERVAL
            /\ status' = ""
            /\ err_message' = EmptyStr
            /\ pc' = "get_api_answer"
    /\ UNCHANGED <<env, locals, error, escaping, history>>

\* line 148: one request; the iteration begins here
GetApiAnswer ==
    /\ pc = "get_api_answer"
    /\ \E rep \in Replies :
         LET r == get_api_answer(timestamp, rep) IN
         /\ requests_made' = Append(requests_made, Request(timestamp))
         /\ reply' = rep
         /\ IF r.raised
            THEN /\ \E id \in FreeIds : error' = Object(r.exc, id)
                 /\ IF IsException(r.exc.kind)
                    THEN pc' = "except" /\ escaping' = FALSE
                    ELSE pc' = "sleep" /\ escaping' = TRUE
                 /\ UNCHANGED response
            ELSE /\ response' = r.value
                 /\ pc' = "check_response"
                 /\ UNCHANGED <<error, escaping>>
    /\ sent' = <<>>
    /\ slept' = <<>>
    /\ status0' = status
    /\ err0' = err_message
    /\ caught' = NoExc
    /\ UNCHANGED <<env, started, timestamp, status, err_message, get_status, text, prev_caught, looped, last_validated>>

\* line 149
CheckResponse ==
    /\ pc = "check_response"
    /\ LET r == check_response(response) IN
       IF r.raised
       THEN /\ \E id \in FreeIds : error' = Object(r.exc, id)
            /\ IF IsException(r.exc.kind)
               THEN pc' = "except" /\ escaping' = FALSE
               ELSE pc' = "sleep" /\ escaping' = TRUE
            /\ UNCHANGED get_status
       ELSE /\ get_status' = r.value
            /\ pc' = "compare"
            /\ UNCHANGED <<error, escaping>>
    /\ UNCHANGED <<env, started, timestamp, status, err_message, response, text, history>>

\* lines 150-153 with the assignment of status left for after a delivered
\* notification
Compare_StatusNotYetUpdated ==
    /\ pc = "compare"
    /\ pc' = IF status = get_status THEN "sleep" ELSE "parse_status"
    /\ UNCHANGED <<env, started, timestamp, status, err_message, locals, error, escaping, history>>

\* lines 150-153 without the comparison: every valid response is notified
Compare_NoComparison ==
    /\ pc = "compare"
    /\ status' = get_status
    /\ pc' = "parse_status"
    /\ UNCHANGED <<env, started, timestamp, err_message, locals, error, escaping, history>>

\* lines 150-153
Compare ==
    /\ pc = "compare"
    /\ IF status = get_status
       THEN pc' = "sleep" /\ UNCHANGED status
       ELSE status' = get_status /\ pc' = "parse_status"
    /\ UNCHANGED <<env, started, timestamp, err_message, locals, error, escaping, history>>

\* line 154
ParseStatus ==
    /\ pc = "parse_status"
    /\ LET r == parse_status(response.homeworks.items[1]) IN
       IF r.raised
       THEN /\ \E id \in FreeIds : error' = Object(r.exc, id)
            /\ IF IsException(r.exc.kind)
               THEN pc' = "except" /\ escaping' = FALSE
               ELSE pc' = "sleep" /\ escaping' = TRUE
            /\ UNCHANGED text
       ELSE /\ text' = r.value
            /\ pc' = "send_message"
            /\ UNCHANGED <<error, escaping>>
    /\ UNCHANGED <<env, started, timestamp, status, err_message, response, get_status, history>>

\* line 155
SendStatus ==
    /\ pc = "send_message"
    /\ \E delivery \in Deliveries :
         LET r == send_message(text, delivery) IN
         /\ sent' = Append(sent, [what |-> "status", text |-> text, delivery |-> delivery])
         /\ IF r.raised
            THEN /\ \E id \in FreeIds : error' = Object(r.exc, id)
                 /\ IF IsException(r.exc.kind)
                    THEN pc' = "except" /\ escaping' = FALSE
                    ELSE pc' = "sleep" /\ escaping' = TRUE
            ELSE /\ pc' = "sleep"
                 /\ UNCHANGED <<error, escaping>>
    /\ UNCHANGED <<env, started, timestamp, status, err_message, locals,
                   requests_made, reply, slept, status0, err0, caught, prev_caught, looped, last_validated>>

\* lines 156-159 with the last known status forgotten on an error
Except_ResetsStatus ==
    /\ pc = "except"
    /\ caught' = [kind |-> error.kind, msg |-> error.msg]
    /\ status' = ""
    /\ IF Differs(err_message, error)
       THEN err_message' = error /\ pc' = "report"
       ELSE pc' = "sleep" /\ UNCHANGED err_message
    /\ UNCHANGED <<env, started, timestamp, locals, error, escaping,
                   requests_made, reply, sent, slept, status0, err0, prev_caught, looped, last_validated>>

\* lines 156-159
Except ==
    /\ pc = "except"
    /\ caught' = [kind |-> error.kind, msg |-> error.msg]
    /\ IF Differs(err_message, error)
       THEN err_message' = error /\ pc' = "report"
       ELSE pc' = "sleep" /\ UNCHANGED err_message
    /\ UNCHANGED <<env, started, timestamp, status, locals, error, escaping,
                   requests_made, reply, sent, slept, status0, err0, prev_caught, looped, last_validated>>

\* line 160 in a retry loop: a report that is not delivered is sent again
Report_Retried ==
    /\ pc = "report"
    /\ \E delivery \in Deliveries :
         LET message == FailureMessage(err_message)
             r == send_message(message, delivery)
         IN
         /\ sent' = Append(sent, [what |-> "report", text |-> message, delivery |-> delivery])
         /\ pc' = IF r.raised THEN "report" ELSE "sleep"
    /\ UNCHANGED <<env, started, timestamp, status, err_message, locals, error, escaping,
                   requests_made, reply, slept, status0, err0, caught, prev_caught, looped, last_validated>>

\* line 160 with the sleep at the end of the try body and not in a finally
\* clause: a failed report leaves main() at once
Report_NoFinally ==
    /\ pc = "report"
    /\ \E delivery \in Deliveries :
         LET message == FailureMessage(err_message)
             r == send_message(message, delivery)
         IN
         /\ sent' = Append(sent, [what |-> "report", text |-> message, delivery |-> delivery])
         /\ IF r.raised
            THEN /\ \E id \in FreeIds : error' = Object(r.exc, id)
                 /\ escaping' = TRUE
                 /\ pc' = "crashed"
            ELSE /\ UNCHANGED <<error, escaping>>
                 /\ pc' = "sleep"
    /\ UNCHANGED <<env, started, timestamp, status, err_message, locals,
                   requests_made, reply, slept, status0, err0, caught, prev_caught, looped, last_validated>>

\* line 160: an exception raised here is inside the except clause, so
\* nothing catches it: it leaves the try statement after the finally clause
Report ==
    /\ pc = "report"
    /\ \E delivery \in Deliveries :
         LET message == FailureMessage(err_message)
             r == send_message(message, delivery)
         IN
         /\ sent' = Append(sent, [what |-> "report", text |-> message, delivery |-> delivery])
         /\ IF r.raised
            THEN /\ \E id \in FreeIds : error' = Object(r.exc, id)
                 /\ escaping' = TRUE
            ELSE UNCHANGED <<error, escaping>>
         /\ pc' = "sleep"
    /\ UNCHANGED <<env, started, timestamp, status, err_message, locals,
                   requests_made, reply, slept, status0, err0, caught, prev_caught, looped, last_validated>>

\* lines 161-162 with the cursor moved forward by the time slept
Sleep_AdvancesCursor ==
    /\ pc = "sleep"
    /\ slept' = Append(slept, RETRY_PERIOD)
    /\ pc' = IF escaping THEN "crashed" ELSE "get_api_answer"
    /\ IF escaping THEN UNCHANGED error ELSE error' = NoError
    /\ response' = NoBody
    /\ get_status' = ""
    /\ text' = ""
    /\ requests_made' = <<>>
    /\ reply' = NoReply
    /\ prev_caught' = caught
    /\ looped' = TRUE
    /\ last_validated' = IF get_status # "" THEN status ELSE last_validated
    /\ timestamp' = timestamp + RETRY_PERIOD
    /\ UNCHANGED <<env, started, status, err_message, escaping, sent, status0, err0, caught>>

\* lines 161-162, then the loop's next turn or the propagating exception
\* leaving main().  The locals of the finished iteration are assigned before
\* they are read again, so they are cleared here.
Sleep ==
    /\ pc = "sleep"
    /\ slept' = Append(slept, RETRY_PERIOD)
    /\ pc' = IF escaping THEN "crashed" ELSE "get_api_answer"
    /\ IF escaping THEN UNCHANGED error ELSE error' = NoError
    /\ response' = NoBody
    /\ get_status' = ""
    /\ text' = ""
    /\ requests_made' = <<>>
    /\ reply' = NoReply
    /\ prev_caught' = caught
    /\ looped' = TRUE
    /\ last_validated' = IF get_status # "" THEN status ELSE last_validated
    /\ UNCHANGED <<env, started, timestamp, status, err_message, escaping, sent, status0, err0, caught>>

Next ==
    \/ Startup
    \/ GetApiAnswer
    \/ CheckResponse
    \/ Compare
    \/ ParseStatus
    \/ SendStatus
    \/ Except
    \/ Report
    \/ Sleep

Spec == Init /\ [][Next]_vars

-----------------------------------------------------------------------------
(* Vocabulary of the properties *)

\* the work of an iteration is over: only the sleep of the finally clause is left
IterationDone == pc = "sleep"

\* the try body raised in this iteration, and the except clause caught it
Failed == caught # NoExc

\* fetch and validation succeeded in this iteration
Validated == get_status # ""

Reports == {i \in DOMAIN sent : sent[i].what = "report"}

StatusMessages == {i \in DOMAIN sent : sent[i].what = "status"}

\* the first homework of the response of this iteration
First == response.homeworks.items[1]

-----------------------------------------------------------------------------
(* C1 *)

\* C1: an iteration that fails with the same error (class and message) as
\* the iteration before it attempts no failure report, while the first
\* failure since startup does attempt one.
C1_RepeatedErrorReportedOnce ==
    IterationDone /\ Failed =>
        /\ (caught = prev_caught => Reports = {})
        /\ (err0 = EmptyStr => Reports # {})

-----------------------------------------------------------------------------
(* C2 *)

\* C2: once the loop is entered the process never terminates: whatever the
\* outcomes of an iteration, main() is at a step of the loop.
C2_NoErrorIsFatal ==
    pc \notin {"start", "exited"} =>
        pc \in {"get_api_answer", "check_response", "compare", "parse_status",
                "send_message", "except", "report", "sleep"}

-----------------------------------------------------------------------------
(* C3 *)

\* the text a status change of homework h is announced with
ExpectedText(h) ==
    "Review status of work \"" \o h["homework_name"] \o "\" has changed. "
        \o HOMEWORK_VERDICTS[h["status"]]

Changed == IterationDone /\ Validated /\ get_status # status0

\* C3 as stated: an iteration whose validated status differs from the last
\* known one makes exactly one send, a delivered status message naming the
\* first homework and the verdict of its status.
C3_ChangeNotifiedOnce ==
    Changed =>
        /\ Len(sent) = 1
        /\ sent[1].what = "status"
        /\ sent[1].delivery = ""
        /\ "homework_name" \in DOMAIN First
        /\ sent[1].text = ExpectedText(First)

\* C3 amended: when moreover the first homework has a name, exactly one
\* status message is attempted, first, with the name and the verdict; it is
\* the only send of the iteration when it is delivered.
C3_ChangeNotifiedOnceIfNamed ==
    Changed /\ "homework_name" \in DOMAIN First =>
        /\ Cardinality(StatusMessages) = 1
        /\ sent[1].what = "status"
        /\ sent[1].text = ExpectedText(First)
        /\ First["status"] = get_status
        /\ status = get_status
        /\ (sent[1].delivery = "" => Len(sent) = 1)

C3_Witness ==
    /\ Changed
    /\ status0 = "reviewing"
    /\ First = Dict("hw1", "approved")
    /\ sent = <<[what |-> "status", text |-> ExpectedText(Dict("hw1", "approved")), delivery |-> ""]>>

-----------------------------------------------------------------------------
(* C4 *)

\* C4: an iteration whose validated status equals the last known one
\* attempts no send and leaves status and err_message as they were.
C4_UnchangedIsSilent ==
    IterationDone /\ Validated /\ get_status = status0 =>
        /\ sent = <<>>
        /\ status = status0
        /\ err_message = err0
        /\ ~Failed

C4_Witness ==
    /\ IterationDone
    /\ get_status = "reviewing"
    /\ status0 = "reviewing"
    /\ err0.kind = "ApiRequestError"
    /\ sent = <<>>

-----------------------------------------------------------------------------
(* C5 *)

\* the text that reports the failure of send attempt a
ReportOf(a) == FailureMessage([kind |-> "SendMessageError", msg |-> "Sending error: " \o a.delivery])

\* C5: after a send attempt fails, no later send attempt of the iteration
\* carries a report of that delivery failure.
C5_DeliveryFailureNotReported ==
    \A i \in DOMAIN sent : \A j \in DOMAIN sent :
        (i < j /\ sent[i].delivery # "") => sent[j].text # ReportOf(sent[i])

-----------------------------------------------------------------------------
(* C6 *)

InIteration ==
    pc \in {"check_response", "compare", "parse_status", "send_message", "except", "report", "sleep"}

\* C6: never two requests without a sleep between them; while an iteration
\* works it has made one request and not slept; when the iteration is over,
\* however it ended, it has slept exactly once, for RETRY_PERIOD.
C6_OneSleepPerIteration ==
    /\ Len(requests_made) <= 1
    /\ (InIteration => Len(requests_made) = 1 /\ slept = <<>>)
    /\ ((pc = "get_api_answer" /\ looped) \/ pc = "crashed" =>
            slept = <<RETRY_PERIOD>> /\ requests_made = <<>>)

\* an exception left the except clause, and the iteration slept before
\* main() ended
C6_Witness ==
    /\ pc = "crashed"
    /\ error.kind = "SendMessageError"
    /\ slept = <<RETRY_PERIOD>>

-----------------------------------------------------------------------------
(* C7 *)

AllNonEmpty ==
    \A t \in {PRACTICUM_TOKEN, TELEGRAM_TOKEN, TELEGRAM_CHAT_ID} : t \notin {None, ""}

-----------------------------------------------------------------------------
(* C8 *)

\* the error the except clause caught, or is about to handle
Failure == IF pc = "except" THEN [kind |-> error.kind, msg |-> error.msg] ELSE caught

NotMapping == response.type # "dict"

LacksKey == response.type = "dict" /\ "homeworks" \notin response.keys

NotList ==
    response.type = "dict" /\ "homeworks" \in response.keys /\ response.homeworks.type # "list"

\* C8: a response that is no dict or lacks "homeworks" fails with the
\* 'not found' TypeError, one whose "homeworks" is no list with the 'not a
\* list' TypeError; check_response returned nothing, so nothing was
\* compared: status is unchanged and no status message is sent.
C8_BadShapeFailsValidation ==
    response # NoBody /\ pc \in {"except", "report", "sleep"}
    /\ (NotMapping \/ LacksKey \/ NotList) =>
        /\ Failure = [kind |-> "TypeError",
                      msg |-> IF NotList THEN "Key 'homeworks' does not return a list"
                              ELSE "No dict with homeworks found in the API response"]
        /\ get_status = ""
        /\ status = status0
        /\ StatusMessages = {}

C8_Witness ==
    /\ IterationDone
    /\ response # NoBody
    /\ NotList
    /\ status0 = "approved"
    /\ caught.msg = "Key 'homeworks' does not return a list"
    /\ Reports # {}

-----------------------------------------------------------------------------
(* C9 *)

Undocumented ==
    /\ response.type = "dict"
    /\ "homeworks" \in response.keys
    /\ response.homeworks.type = "list"
    /\ Len(response.homeworks.items) > 0
    /\ Get(First, "status") \notin DOMAIN HOMEWORK_VERDICTS

\* C9: a first homework whose status is none of the three documented ones
\* fails with the 'undocumented status' error, sends no status message,
\* leaves status unchanged, and is reported under the dedup rule: not again
\* when the iteration before failed with the same error.
C9_UndocumentedStatusIsADedupedError ==
    Undocumented /\ pc \in {"except", "report", "sleep"} =>
        /\ Failure = [kind |-> "TypeError",
                      msg |-> "Error: undocumented status: " \o Get(First, "status")]
        /\ StatusMessages = {}
        /\ status = status0
        /\ (IterationDone /\ caught = prev_caught => Reports = {})
        /\ (IterationDone /\ err0 = EmptyStr => Reports # {})

-----------------------------------------------------------------------------
(* C10 *)

FetchReturned == pc = "check_response"

FetchRaised == pc = "except" /\ response = NoBody

\* C10: get_api_answer makes one request and has two outcomes: the
\* deserialized body of an HTTP 200 reply, returned as it is, or an
\* ApiRequestError for everything else.
C10_FetchOutcomes ==
    FetchReturned \/ FetchRaised =>
        /\ Len(requests_made) = 1
        /\ IF reply.raises = "" /\ reply.status_code = HTTP_OK /\ reply.json.raises = ""
           THEN FetchReturned /\ response = reply.json.value
           ELSE FetchRaised /\ error.kind = "ApiRequestError"

-----------------------------------------------------------------------------
(* C11 *)

\* the error caught in this iteration is the one err_message held when the
\* iteration began, so a failure report for it was attempted earlier
SameAsLastReported == err0.kind = caught.kind /\ err0.msg = caught.msg

\* the iteration before this one went through without an exception
PreviousSucceeded == looped /\ prev_caught = NoExc

-----------------------------------------------------------------------------
(* C12 *)

\* C12: from the moment the loop is entered the cursor is the start time
\* minus TIME_INTERVAL, in every iteration, and every request carries it.
C12_CursorIsFixed ==
    /\ (pc \notin {"start", "exited"} => timestamp = started - TIME_INTERVAL)
    /\ \A i \in DOMAIN requests_made :
           requests_made[i].params.from_date = started - TIME_INTERVAL

\* a request of a later iteration, after a failure and a change of status
C12_Witness ==
    /\ pc = "check_response"
    /\ looped
    /\ prev_caught # NoExc
    /\ status = "approved"
    /\ started = TIME_INTERVAL + 86400
    /\ requests_made = <<Request(86400)>>

-----------------------------------------------------------------------------
(* C13 *)

EmptyList ==
    /\ response.type = "dict"
    /\ "homeworks" \in response.keys
    /\ response.homeworks.type = "list"
    /\ Len(response.homeworks.items) = 0

\* C13: an empty "homeworks" list fails validation with the index error;
\* status is unchanged, no status message is sent, a failure report is
\* attempted under the dedup rule (not again when the iteration before
\* failed with the same error), and the iteration ends in the sleep with no
\* exception left to propagate.
C13_EmptyListIsADedupedError ==
    EmptyList /\ pc \in {"except", "report", "sleep"} =>
        /\ Failure = [kind |-> "IndexError", msg |-> "list index out of range"]
        /\ get_status = ""
        /\ status = status0
        /\ StatusMessages = {}
        /\ (IterationDone /\ caught = prev_caught => Reports = {})
        /\ (IterationDone /\ err0 = EmptyStr => Reports # {})
        /\ (IterationDone => ~escaping)

-----------------------------------------------------------------------------
(* C14 *)

NonEmptyList ==
    /\ response.type = "dict"
    /\ "homeworks" \in response.keys
    /\ response.homeworks.type = "list"
    /\ Len(response.homeworks.items) > 0

\* the bodies whose "homeworks" list begins with homework h
BodiesStartingWith(h) ==
    {b \in Bodies : b.homeworks.type = "list" /\ Len(b.homeworks.items) > 0
                    /\ b.homeworks.items[1] = h}

\* what an iteration that began with status s0 and received first homework
\* h has done when its work is over, told from s0, h and the outcomes of
\* the deliveries alone
OutcomeFromFirst(s0, h) ==
    LET st == Get(h, "status") IN
    /\ IF st \notin DOMAIN HOMEWORK_VERDICTS
       THEN /\ caught = [kind |-> "TypeError", msg |-> "Error: undocumented status: " \o st]
            /\ status = s0
            /\ StatusMessages = {}
       ELSE IF st = s0
       THEN /\ ~Failed
            /\ status = s0
            /\ sent = <<>>
       ELSE /\ status = st
            /\ IF "homework_name" \notin DOMAIN h
               THEN /\ caught = [kind |-> "KeyError", msg |-> "API response lacks key 'homework_name'"]
                    /\ StatusMessages = {}
               ELSE /\ StatusMessages = {1}
                    /\ sent[1].text = ExpectedText(h)
                    /\ IF sent[1].delivery = ""
                       THEN ~Failed
                       ELSE caught = [kind |-> "SendMessageError",
                                      msg |-> "Sending error: " \o sent[1].delivery]
    /\ IF Failed
       THEN /\ Reports = {Len(sent)}
            /\ sent[Len(sent)].text = FailureMessage(caught)
       ELSE Reports = {}

\* C14: the new status, the messages sent and the error of an iteration
\* are determined by the first homework of the list (with the state the
\* iteration began in and the delivery outcomes): the homeworks after the
\* first change nothing, in validation or afterwards.
C14_OnlyFirstInspected ==
    /\ (pc = "check_response" /\ NonEmptyList =>
            \A b \in BodiesStartingWith(First) : check_response(b) = check_response(response))
    /\ (IterationDone /\ NonEmptyList => OutcomeFromFirst(status0, First))

\* a list whose second homework has another, undocumented, status
C14_Witness ==
    /\ IterationDone
    /\ NonEmptyList
    /\ response.homeworks.items = <<Dict("hw1", "rejected"), Dict("hw0", "archived")>>
    /\ status0 = "approved"
    /\ status = "rejected"
    /\ Len(sent) = 1

-----------------------------------------------------------------------------
(* parse_status on its own: main() stands at line 154 with any homework    *)
(* dict as the first of the response, and line 154 is executed             *)

FormatNames == {"hw1", "hw2", "homework 3", ""}

FormatStatuses ==
    {"approved", "reviewing", "rejected", "unknown", "archived", "Approved", "None", ""}

FormatHomeworks ==
    {Dict(n, s) : n \in FormatNames \cup {Absent}, s \in FormatStatuses \cup {Absent}}

InitFormat ==
    /\ pc = "parse_status"
    /\ PRACTICUM_TOKEN = "token"
    /\ TELEGRAM_TOKEN = "token"
    /\ TELEGRAM_CHAT_ID = "token"
    /\ started = TIME_INTERVAL
    /\ timestamp = 0
    /\ status = ""
    /\ err_message = EmptyStr
    /\ \E h \in FormatHomeworks :
           response = [type |-> "dict", keys |-> {"homeworks", "current_date"},
                       homeworks |-> [type |-> "list", items |-> <<h>>]]
    /\ get_status = ""
    /\ text = ""
    /\ error = NoError
    /\ escaping = FALSE
    /\ requests_made = <<Request(0)>>
    /\ reply = NoReply
    /\ sent = <<>>
    /\ slept = <<>>
    /\ status0 = ""
    /\ err0 = EmptyStr
    /\ caught = NoExc
    /\ prev_caught = NoExc
    /\ looped = FALSE
    /\ last_validated = ""

SpecFormat == InitFormat /\ [][ParseStatus]_vars

-----------------------------------------------------------------------------
(* C15 *)

Formatted == pc \in {"send_message", "except"}

\* C15: parse_status fails with the missing-name error for a dict without
\* homework_name, with the not-documented error for the status "unknown",
\* with the unidentified-status ValueError for any other status that is not
\* in the verdict table, and for the three statuses of the table returns
\* the fixed text with the name and the verdict.
C15_FormatOutcomes ==
    Formatted =>
        IF "homework_name" \notin DOMAIN First
        THEN pc = "except" /\ error.kind = "KeyError"
             /\ error.msg = "API response lacks key 'homework_name'"
        ELSE IF "status" \notin DOMAIN First
        THEN pc = "except"
        ELSE IF First["status"] = "unknown"
        THEN pc = "except" /\ error.kind = "HomeWorkStatusUnknown"
        ELSE IF First["status"] \notin DOMAIN HOMEWORK_VERDICTS
        THEN pc = "except" /\ error.kind = "ValueError"
        ELSE pc = "send_message" /\ text = ExpectedText(First)

-----------------------------------------------------------------------------
(* C16 *)

\* C16: status holds the new status as soon as a change is seen, also in
\* an iteration whose formatting or delivery then fails; and an iteration
\* that receives the status already held attempts no status message,
\* whatever became of the earlier notification.
C16_StatusUpdatedBeforeNotifying ==
    /\ (pc \in {"parse_status", "send_message"} => status = get_status)
    /\ (InIteration /\ Validated /\ get_status # status0 /\ pc # "compare" => status = get_status)
    /\ (IterationDone /\ Validated /\ get_status = status0 => sent = <<>>)

\* the iteration before failed to deliver the status message, this one
\* receives the same status and sends nothing
C16_Witness ==
    /\ IterationDone
    /\ prev_caught = [kind |-> "SendMessageError", msg |-> "Sending error: Timed out"]
    /\ get_status = "approved"
    /\ status0 = "approved"
    /\ sent = <<>>

-----------------------------------------------------------------------------
(* C17 *)

\* C17: status is always the initial "" or a key of HOMEWORK_VERDICTS, and
\* within an iteration it differs from what it was at the start only when
\* check_response returned, and then it is the status returned.
C17_StatusIsDocumented ==
    /\ status \in {""} \cup DOMAIN HOMEWORK_VERDICTS
    /\ (InIteration /\ status # status0 => Validated /\ status = get_status)
    /\ (InIteration /\ ~Validated => status = status0)

\* validation fails on an undocumented status while a documented one is held
C17_Witness ==
    /\ IterationDone
    /\ NonEmptyList
    /\ Get(First, "status") = "archived"
    /\ caught.kind = "TypeError"
    /\ status = "reviewing"

-----------------------------------------------------------------------------
(* C18 *)

\* status is what it was after the last iteration with a valid response
StatusKeptAcrossFailures ==
    /\ (pc = "get_api_answer" => status = last_validated)
    /\ (InIteration /\ ~Validated => status = last_validated /\ status = status0)

\* C18 as stated: failed fetches and validations leave status as it was,
\* and an iteration with a valid response attempts a status message exactly
\* when its status differs from the one recorded before the failures.
C18_ChangeDetectedAfterFailures ==
    /\ StatusKeptAcrossFailures
    /\ (IterationDone /\ Validated =>
            (StatusMessages # {} <=> get_status # last_validated))

\* C18 amended: ... exactly when its status differs from the one recorded
\* before the failures and its first homework has a name.
C18_ChangeDetectedAfterFailuresIfNamed ==
    /\ StatusKeptAcrossFailures
    /\ (IterationDone /\ Validated =>
            (StatusMessages # {} <=>
                (get_status # last_validated /\ "homework_name" \in DOMAIN First)))

\* a failed fetch, then a valid response with another status than the one
\* held before the failure
C18_Witness ==
    /\ IterationDone
    /\ Validated
    /\ prev_caught.kind = "ApiRequestError"
    /\ last_validated = "reviewing"
    /\ get_status = "approved"
    /\ StatusMessages = {1}

-----------------------------------------------------------------------------
(* C19 *)

\* C19: an iteration makes at most two send attempts: at most one status
\* message, then at most one failure report; a report that is not
\* delivered ends the work of the iteration and is not attempted again.
C19_AtMostTwoSends ==
    /\ Len(sent) <= 2
    /\ Cardinality(StatusMessages) <= 1
    /\ Cardinality(Reports) <= 1
    /\ \A i \in StatusMessages : \A j \in Reports : i < j
    /\ \A j \in Reports :
           sent[j].delivery # "" => j = Len(sent) /\ pc \in {"sleep", "get_api_answer", "crashed"}

\* a status message that is not delivered, then a report that is not either
C19_Witness ==
    /\ IterationDone
    /\ Len(sent) = 2
    /\ sent[1].what = "status" /\ sent[1].delivery # ""
    /\ sent[2].what = "report" /\ sent[2].delivery # ""
    /\ escaping

====
